---- MODULE Spec2Model ----
(***************************************************************************)
(* LLMSafeSpace Python runtime: the security wrapper                       *)
(* (runtimes/python/tools/python-security-wrapper.py) and the interpreter  *)
(* start-up hook (runtimes/python/security/python/sitecustomize.py).       *)
(*                                                                         *)
(* One behaviour is one sandbox process: interpreter start-up (where       *)
(* sitecustomize runs when it is deployed on the site path), the wrapper's *)
(* module-level statements in source order, the mode dispatch of its       *)
(* __main__ block, and then the statements of the untrusted code.          *)
(***************************************************************************)
EXTENDS Integers, Sequences, FiniteSets, TLC

VARIABLES
  policySource,   \* content of /etc/llmsafespace/python/restricted_modules.json
  siteCustomize,  \* TRUE iff sitecustomize.py is on the interpreter's site path
  argvMode,       \* shape of sys.argv: which invocation mode is requested
  pc,             \* position of the process in the wrapper
  sysModules,     \* sys.modules: names of the loaded modules
  metaPath,       \* the gates of sys.meta_path, front first (builtin finders follow)
  policyObj,      \* the RESTRICTED_MODULES object of each gate
  osBinding,      \* attribute table of the os module (process entry points)
  rlimit,         \* resource -> [soft, hard]
  limiter,        \* "pending" | "ok" | "failed": outcome of set_resource_limits
  gateInstalled,  \* the wrapper executed sys.meta_path.insert (line 39)
  executed,       \* number of untrusted statements executed so far
  lastEvent,      \* what the last statement did: [by, kind, name, outcome]
  warnCount,      \* name -> number of WARNING records written to stderr
  diag,           \* other diagnostics written to stderr
  exitCode        \* -1 while running, else the process exit status

vars == <<policySource, siteCustomize, argvMode, pc, sysModules,
          metaPath, policyObj, osBinding, rlimit, limiter, gateInstalled,
          executed, lastEvent, warnCount, diag, exitCode>>

(***************************************************************************)
(* Bounds of the model.                                                    *)
(***************************************************************************)
\* Longest blocked / warning list drawn for the policy file.
MaxListLen == 1
\* Most statements of untrusted code executed in one process.
MaxSteps == 2

(***************************************************************************)
(* Module names.  "ghost" stands for a name no builtin finder can supply.  *)
(***************************************************************************)
Names == {"sys", "os", "os.path", "json", "resource", "importlib",
          "importlib.util", "code", "socket", "ghost"}

\* Names the policy file may list.
PolicyNames == {"os", "socket", "ghost"}

\* Names untrusted code asks for.
UntrustedNames == {"os", "socket", "ghost"}

\* Loaded by the interpreter itself before any site hook runs.
StartupModules == {"sys", "os", "os.path"}

Exists(n) == n /= "ghost"

HasParent(n) == n \in {"importlib.util", "os.path"}

Parent(n) ==
  IF n = "importlib.util" THEN "importlib" ELSE IF n = "os.path" THEN "os" ELSE n

(***************************************************************************)
(* The policy file and the value json.load makes of it.  A field is a     *)
(* list (k = "list", v its elements), absent (k = "missing") or a JSON    *)
(* number / null / boolean (k = "scalar").                                 *)
(***************************************************************************)
ListsUpTo(k) == {s \in SUBSET PolicyNames : Cardinality(s) <= k}

WellFormedSources ==
  {[kind |-> "json", blocked |-> [k |-> "list", v |-> b],
                     warning |-> [k |-> "list", v |-> w]] :
      b \in ListsUpTo(MaxListLen), w \in ListsUpTo(MaxListLen)}

MalformedSources ==
  {[kind |-> "json", blocked |-> b, warning |-> w] :
      b \in {[k |-> "missing", v |-> {}], [k |-> "scalar", v |-> {}]},
      w \in {[k |-> "list", v |-> {}]}}
  \cup
  {[kind |-> "json", blocked |-> b, warning |-> w] :
      b \in {[k |-> "list", v |-> {}]},
      w \in {[k |-> "missing", v |-> {}], [k |-> "scalar", v |-> {}]}}

UnreadableSource ==
  [kind |-> "unreadable", blocked |-> [k |-> "missing", v |-> {}],
                          warning |-> [k |-> "missing", v |-> {}]]

Sources == WellFormedSources \cup MalformedSources \cup {UnreadableSource}

NotLoaded == [blocked |-> [k |-> "none", v |-> {}], warning |-> [k |-> "none", v |-> {}]]

\* open(...) and json.load(f): raises for an absent file or invalid JSON, and
\* otherwise returns whatever object the document holds, unvalidated.
LoadRaises(src) == src.kind = "unreadable"

JsonLoad(src) == [blocked |-> src.blocked, warning |-> src.warning]

(***************************************************************************)
(* RestrictedImportFinder.find_spec, once per file that defines it.        *)
(* Result: the exception raised, "warn" (record printed, None returned) or *)
(* "none" (None returned silently).                                        *)
(***************************************************************************)
\* Variant: a listed package also matches the modules inside it.
WrapperFindSpec_Prefix(policy, fullname) ==
  IF policy.blocked.k = "missing" THEN "KeyError"
  ELSE IF policy.blocked.k = "scalar" THEN "TypeError"
  ELSE IF fullname \in policy.blocked.v \/ Parent(fullname) \in policy.blocked.v
       THEN "ImportError"
  ELSE IF policy.warning.k = "missing" THEN "KeyError"
  ELSE IF policy.warning.k = "scalar" THEN "TypeError"
  ELSE IF fullname \in policy.warning.v THEN "warn"
  ELSE "none"

WrapperFindSpec(policy, fullname) ==
  IF policy.blocked.k = "missing" THEN "KeyError"
  ELSE IF policy.blocked.k = "scalar" THEN "TypeError"
  ELSE IF fullname \in policy.blocked.v THEN "ImportError"
  ELSE IF policy.warning.k = "missing" THEN "KeyError"
  ELSE IF policy.warning.k = "scalar" THEN "TypeError"
  ELSE IF fullname \in policy.warning.v THEN "warn"
  ELSE "none"

SiteFindSpec(policy, fullname) ==
  IF policy.blocked.k = "missing" THEN "KeyError"
  ELSE IF policy.blocked.k = "scalar" THEN "TypeError"
  ELSE IF fullname \in policy.blocked.v THEN "ImportError"
  ELSE IF policy.warning.k = "missing" THEN "KeyError"
  ELSE IF policy.warning.k = "scalar" THEN "TypeError"
  ELSE IF fullname \in policy.warning.v THEN "warn"
  ELSE "none"

GateFindSpec(g, policy, fullname) ==
  IF g = "wrapper" THEN WrapperFindSpec(policy, fullname)
  ELSE SiteFindSpec(policy, fullname)

Raised(r) == r \in {"ImportError", "KeyError", "TypeError", "ModuleNotFoundError"}

(***************************************************************************)
(* The import protocol the gates are hooked into.  A name found in         *)
(* sys.modules is returned without consulting any finder; otherwise the    *)
(* finders of sys.meta_path are asked front to back, an exception of a     *)
(* finder ends the import, and the builtin finders at the back supply the  *)
(* module when it exists.  A dotted name imports its parent package first. *)
(* A module's own dependencies are not followed.                           *)
(***************************************************************************)
RECURSIVE WalkMetaPath(_, _, _, _, _)
WalkMetaPath(path, i, pols, fullname, warned) ==
  IF i > Len(path)
  THEN [outcome |-> IF Exists(fullname) THEN "ok" ELSE "ModuleNotFoundError",
        warned |-> warned]
  ELSE LET r == GateFindSpec(path[i], pols[path[i]], fullname)
       IN IF Raised(r) THEN [outcome |-> r, warned |-> warned]
          ELSE WalkMetaPath(path, i + 1, pols, fullname,
                            IF r = "warn" THEN warned + 1 ELSE warned)

NoWarnings == [n \in Names |-> 0]

\* import of one undotted step: [outcome, cache, emitted]
ImportOne(fullname, cache, path, pols, emitted) ==
  IF fullname \in cache
  THEN [outcome |-> "ok", cache |-> cache, emitted |-> emitted]
  ELSE LET w == WalkMetaPath(path, 1, pols, fullname, 0)
       IN [outcome |-> w.outcome,
           cache   |-> IF w.outcome = "ok" THEN cache \cup {fullname} ELSE cache,
           emitted |-> [emitted EXCEPT ![fullname] = @ + w.warned]]

ImportModule(fullname, cache, path, pols, emitted) ==
  IF HasParent(fullname)
  THEN LET p == ImportOne(Parent(fullname), cache, path, pols, emitted)
       IN IF p.outcome /= "ok" THEN p
          ELSE ImportOne(fullname, p.cache, path, pols, p.emitted)
  ELSE ImportOne(fullname, cache, path, pols, emitted)

\* a run of import statements; stops at the first that raises
RECURSIVE ImportAll(_, _, _, _, _, _)
ImportAll(names, i, cache, path, pols, emitted) ==
  IF i > Len(names)
  THEN [outcome |-> "ok", cache |-> cache, emitted |-> emitted, failed |-> "sys"]
  ELSE LET r == ImportModule(names[i], cache, path, pols, emitted)
       IN IF r.outcome /= "ok"
          THEN [outcome |-> r.outcome, cache |-> r.cache, emitted |-> r.emitted,
                failed |-> names[i]]
          ELSE ImportAll(names, i + 1, r.cache, path, pols, r.emitted)

AddWarnings(wc, emitted) == [n \in Names |-> wc[n] + emitted[n]]

(***************************************************************************)
(* The os module's process entry points.  The platform is Unix (the        *)
(* wrapper imports `resource`): every name below exists except `spawn`,    *)
(* which no Python version defines.                                        *)
(***************************************************************************)
OsNames == {"system", "popen", "spawn", "execl", "execle", "execlp", "execv",
            "execve", "execvp", "execvpe", "spawnv", "posix_spawn", "fork"}

\* Every name of OsNames that starts or replaces a process.
ProcessEntryPoints == OsNames \ {"spawn"}

\* The exec family replaces the process image; the others start a child.
ExecFamily == {"execl", "execle", "execlp", "execv", "execve", "execvp", "execvpe"}

PlatformOs == [f \in OsNames |-> IF f = "spawn" THEN "absent" ELSE "native"]

\* The names sitecustomize.py rebinds, each under `if hasattr(os, name)`.
PatchTargets == {"system", "popen", "spawn", "execl", "execle", "execlp",
                 "execv", "execve", "execvp"}

\* Variant: the binding is deleted instead of replaced.
PatchOne_Removed(table, f) == "absent"

PatchOne(table, f) ==
  IF table[f] /= "absent" THEN "disabled" ELSE table[f]

PatchOs(table) ==
  [f \in OsNames |-> IF f \in PatchTargets THEN PatchOne(table, f) ELSE table[f]]

\* A call of the binding itself: the replacement raises, a missing attribute
\* raises at the lookup, a native function does its work.
DirectCall(table, f) ==
  IF table[f] = "absent" THEN "AttributeError"
  ELSE IF table[f] = "disabled" THEN "AttributeError"
  ELSE IF f \in ExecFamily THEN "replaced"
  ELSE IF f = "fork" THEN "forked"
  ELSE "spawned"

\* os.<f>(...): what a call does given the current bindings.  The functions
\* that os.py writes in Python reach the system call through another
\* attribute of os, looked up when they run: execvpe calls os.execve, and
\* spawnv forks a child that calls os.execv and exits with status 127 when
\* that call raises.
CallOutcome(table, f) ==
  IF table[f] /= "native" THEN DirectCall(table, f)
  ELSE IF f = "execvpe" THEN DirectCall(table, "execve")
  ELSE IF f = "spawnv"
       THEN IF DirectCall(table, "execv") = "AttributeError"
            THEN "child_exit_127" ELSE "spawned"
  ELSE DirectCall(table, f)

(***************************************************************************)
(* Resource limits.  setrlimit of an unprivileged process raises when the  *)
(* soft limit exceeds the hard one or the hard limit is raised.            *)
(***************************************************************************)
Resources == {"CPU", "AS", "FSIZE"}

LimitOrder == <<"CPU", "AS", "FSIZE">>

RLIM_INFINITY == 2147483647

CPU_SECONDS == 300

AS_BYTES == 1024 * 1024 * 1024

FSIZE_BYTES == 100 * 1024 * 1024

Ceiling(r) ==
  IF r = "CPU" THEN CPU_SECONDS ELSE IF r = "AS" THEN AS_BYTES ELSE FSIZE_BYTES

\* Hard limits a process may inherit: below the ceiling ("low"), or none.
InheritedKinds == {"low", "unlimited"}

InheritedLimit(r, kind) == IF kind = "low" THEN Ceiling(r) \div 2 ELSE RLIM_INFINITY

\* The profiles drawn: no hard limit at all, or the address space alone
\* limited below its ceiling (the first setrlimit call succeeds, the second
\* raises).
InheritedProfiles ==
  {h \in [Resources -> InheritedKinds] :
     {r \in Resources : h[r] = "low"} \subseteq {"AS"}}

SetrlimitRaises(cur, soft, hard) == soft > hard \/ hard > cur.hard

\* Variant: only the soft limit is set; the hard limit stays as inherited.
AppliedLimit_SoftOnly(cur, c) == [soft |-> c, hard |-> cur.hard]

\* The pair each call passes: soft and hard limit both at the ceiling.
AppliedLimit(cur, c) == [soft |-> c, hard |-> c]

\* The body of the try block: the three calls in order, left at the first
\* that raises.
RECURSIVE ApplyFrom(_, _)
ApplyFrom(rl, i) ==
  IF i > Len(LimitOrder) THEN [rl |-> rl, ok |-> TRUE]
  ELSE LET r == LimitOrder[i]
           c == Ceiling(r)
           a == AppliedLimit(rl[r], c)
       IN IF SetrlimitRaises(rl[r], a.soft, a.hard) THEN [rl |-> rl, ok |-> FALSE]
          ELSE ApplyFrom([rl EXCEPT ![r] = a], i + 1)

(***************************************************************************)
(* The process.                                                            *)
(***************************************************************************)
Gates == {"wrapper", "site"}

Modes == {"inline", "inline_nocode", "script", "script_missing", "interactive"}

NoEvent == [by |-> "none", kind |-> "none", name |-> "none", outcome |-> "none"]

\* Import statements at the head of each file, in source order.
SiteImports == <<"sys", "json", "importlib.util", "os">>

WrapperImportList == <<"os", "sys", "json", "resource", "importlib.util">>

Init ==
  /\ policySource \in Sources
  /\ siteCustomize \in BOOLEAN
  /\ argvMode \in Modes
  /\ pc = "site"
  /\ sysModules = StartupModules
  /\ metaPath = <<>>
  /\ policyObj = [g \in Gates |-> NotLoaded]
  /\ osBinding = PlatformOs
  /\ \E h \in InheritedProfiles :
       rlimit = [r \in Resources |-> [soft |-> InheritedLimit(r, h[r]),
                                      hard |-> InheritedLimit(r, h[r])]]
  /\ limiter = "pending"
  /\ gateInstalled = FALSE
  /\ executed = 0
  /\ lastEvent = NoEvent
  /\ warnCount = NoWarnings
  /\ diag = {}
  /\ exitCode = -1

\* An exception that reaches the top of the wrapper: traceback, status 1.
Die ==
  /\ pc' = "exited"
  /\ exitCode' = 1
  /\ diag' = diag \cup {"traceback"}

\* Interpreter start-up.  With sitecustomize deployed, site.py imports it:
\* its imports run, the policy is loaded, the gate is put at the front of
\* sys.meta_path and the os functions are rebound.  An exception inside it is
\* reported by site.py and start-up goes on.
SiteStartup ==
  /\ pc = "site"
  /\ pc' = "imports"
  /\ IF ~siteCustomize
     THEN UNCHANGED <<sysModules, metaPath, policyObj, osBinding, diag, warnCount>>
     ELSE LET r == ImportAll(SiteImports, 1, sysModules, metaPath, policyObj, NoWarnings)
          IN /\ sysModules' = r.cache
             /\ warnCount' = AddWarnings(warnCount, r.emitted)
             /\ IF LoadRaises(policySource)
                THEN /\ diag' = diag \cup {"site_error"}
                     /\ UNCHANGED <<metaPath, policyObj, osBinding>>
                ELSE /\ policyObj' = [policyObj EXCEPT !["site"] = JsonLoad(policySource)]
                     /\ metaPath' = <<"site">> \o metaPath
                     /\ osBinding' = PatchOs(osBinding)
                     /\ UNCHANGED diag
  /\ UNCHANGED <<policySource, siteCustomize, argvMode, rlimit, limiter,
                 gateInstalled, executed, lastEvent, exitCode>>

\* Lines 2-6 of the wrapper.
WrapperImports ==
  /\ pc = "imports"
  /\ LET r == ImportAll(WrapperImportList, 1, sysModules, metaPath, policyObj, NoWarnings)
     IN /\ sysModules' = r.cache
        /\ warnCount' = AddWarnings(warnCount, r.emitted)
        /\ IF r.outcome = "ok"
           THEN /\ pc' = "load"
                /\ UNCHANGED <<diag, exitCode, lastEvent>>
           ELSE /\ Die
                /\ lastEvent' = [by |-> "wrapper", kind |-> "import",
                                 name |-> r.failed, outcome |-> r.outcome]
  /\ UNCHANGED <<policySource, siteCustomize, argvMode, metaPath, policyObj,
                 osBinding, rlimit, limiter, gateInstalled, executed>>

\* Lines 9-10 of the wrapper.
LoadPolicy ==
  /\ pc = "load"
  /\ IF LoadRaises(policySource)
     THEN /\ Die
          /\ UNCHANGED policyObj
     ELSE /\ policyObj' = [policyObj EXCEPT !["wrapper"] = JsonLoad(policySource)]
          /\ pc' = "gate"
          /\ UNCHANGED <<diag, exitCode>>
  /\ UNCHANGED <<policySource, siteCustomize, argvMode, sysModules, metaPath,
                 osBinding, rlimit, limiter, gateInstalled, executed, lastEvent,
                 warnCount>>

\* Variant: the module-level call of set_resource_limits() is left out, so
\* the __main__ block follows the registration of the gate directly.
AfterGate_NoLimits == "main"

\* Where the wrapper goes once the gate is registered.
AfterGate == "limits"

\* Line 39 of the wrapper.
InstallGate ==
  /\ pc = "gate"
  /\ metaPath' = <<"wrapper">> \o metaPath
  /\ gateInstalled' = TRUE
  /\ pc' = AfterGate
  /\ UNCHANGED <<policySource, siteCustomize, argvMode, sysModules, policyObj,
                 osBinding, rlimit, limiter, executed, lastEvent, warnCount, diag,
                 exitCode>>

\* Lines 13-22 and 42 of the wrapper.
SetResourceLimits ==
  /\ pc = "limits"
  /\ LET a == ApplyFrom(rlimit, 1)
     IN /\ rlimit' = a.rl
        /\ limiter' = IF a.ok THEN "ok" ELSE "failed"
        /\ IF a.ok
           THEN /\ pc' = "main"
                /\ UNCHANGED <<diag, exitCode>>
           ELSE \* except Exception: print a warning, return normally
                /\ pc' = "main"
                /\ diag' = diag \cup {"rlimit_warning"}
                /\ UNCHANGED exitCode
  /\ UNCHANGED <<policySource, siteCustomize, argvMode, sysModules, metaPath,
                 policyObj, osBinding, gateInstalled, executed, lastEvent, warnCount>>

\* Variant: the branch prints its message and falls off the end of the file.
NoCodeBranch_FallsThrough == [diag |-> "no_code", status |-> 0]

\* Lines 52-53: `-c` with nothing after it.
NoCodeBranch == [diag |-> "no_code", status |-> 1]

\* Lines 45-69 of the wrapper: the mode dispatch.
Dispatch ==
  /\ pc = "main"
  /\ CASE argvMode = "inline" ->
            /\ pc' = "exec"
            /\ UNCHANGED <<sysModules, warnCount, diag, exitCode, lastEvent>>
       [] argvMode = "inline_nocode" ->
            /\ pc' = "exited"
            /\ exitCode' = NoCodeBranch.status
            /\ diag' = diag \cup {NoCodeBranch.diag}
            /\ UNCHANGED <<sysModules, warnCount, lastEvent>>
       [] argvMode = "script" ->
            /\ pc' = "exec"
            /\ UNCHANGED <<sysModules, warnCount, diag, exitCode, lastEvent>>
       [] argvMode = "script_missing" ->
            /\ pc' = "exited"
            /\ exitCode' = 1
            /\ diag' = diag \cup {"script_not_found"}
            /\ UNCHANGED <<sysModules, warnCount, lastEvent>>
       [] argvMode = "interactive" ->
            LET r == ImportModule("code", sysModules, metaPath, policyObj, NoWarnings)
            IN /\ sysModules' = r.cache
               /\ warnCount' = AddWarnings(warnCount, r.emitted)
               /\ IF r.outcome = "ok"
                  THEN /\ pc' = "exec"
                       /\ UNCHANGED <<diag, exitCode, lastEvent>>
                  ELSE /\ Die
                       /\ lastEvent' = [by |-> "wrapper", kind |-> "import",
                                        name |-> "code", outcome |-> r.outcome]
  /\ UNCHANGED <<policySource, siteCustomize, argvMode, metaPath, policyObj,
                 osBinding, rlimit, limiter, gateInstalled, executed>>

(***************************************************************************)
(* Untrusted code: exec(sys.argv[2]) in the wrapper's own globals, exec of *)
(* the compiled script, or the console of code.interact.  Each action is   *)
(* one statement.  A statement that raises is either inside a try block of *)
(* the untrusted code (caught) or not; uncaught, the exception ends the    *)
(* process with status 1, except in the console, which prints it and reads *)
(* the next input.                                                         *)
(***************************************************************************)
Running == pc = "exec" /\ executed < MaxSteps

AfterStatement(raised, caught) ==
  IF raised /\ ~caught
  THEN IF argvMode = "interactive"
       THEN /\ diag' = diag \cup {"traceback"}
            /\ UNCHANGED <<pc, exitCode>>
       ELSE Die
  ELSE UNCHANGED <<pc, exitCode, diag>>

\* import <n>
UntrustedImport(n, caught) ==
  /\ Running
  /\ LET r == ImportModule(n, sysModules, metaPath, policyObj, NoWarnings)
     IN /\ sysModules' = r.cache
        /\ warnCount' = AddWarnings(warnCount, r.emitted)
        /\ lastEvent' = [by |-> "untrusted", kind |-> "import", name |-> n,
                         outcome |-> r.outcome]
        /\ AfterStatement(r.outcome /= "ok", caught)
  /\ executed' = executed + 1
  /\ UNCHANGED <<policySource, siteCustomize, argvMode, metaPath, policyObj,
                 osBinding, rlimit, limiter, gateInstalled>>

\* os.<f>(...)
UntrustedCallOs(f, caught) ==
  /\ Running
  /\ LET r == CallOutcome(osBinding, f)
     IN /\ lastEvent' = [by |-> "untrusted", kind |-> "call", name |-> f, outcome |-> r]
        /\ IF r = "replaced"
           THEN /\ pc' = "replaced"
                /\ UNCHANGED <<exitCode, diag>>
           ELSE AfterStatement(r = "AttributeError", caught)
  /\ executed' = executed + 1
  /\ UNCHANGED <<policySource, siteCustomize, argvMode, sysModules, metaPath,
                 policyObj, osBinding, rlimit, limiter, gateInstalled, warnCount>>

\* <gate>.restricted_modules[field].clear(): the object is the global
\* RESTRICTED_MODULES of the exec'd code's namespace and the attribute of
\* the finder in sys.meta_path.
UntrustedClearList(g, field) ==
  /\ Running
  /\ policyObj[g] /= NotLoaded
  /\ policyObj[g][field].k = "list"
  /\ policyObj' = [policyObj EXCEPT ![g][field] = [k |-> "list", v |-> {}]]
  /\ lastEvent' = [by |-> "untrusted", kind |-> "clear", name |-> g, outcome |-> "ok"]
  /\ executed' = executed + 1
  /\ UNCHANGED <<policySource, siteCustomize, argvMode, pc, sysModules,
                 metaPath, osBinding, rlimit, limiter, gateInstalled, warnCount, diag,
                 exitCode>>

RemoveAt(s, i) == SubSeq(s, 1, i - 1) \o SubSeq(s, i + 1, Len(s))

\* sys.meta_path.pop(i)
UntrustedRemoveGate(i) ==
  /\ Running
  /\ i \in 1..Len(metaPath)
  /\ metaPath' = RemoveAt(metaPath, i)
  /\ lastEvent' = [by |-> "untrusted", kind |-> "unhook", name |-> metaPath[i],
                   outcome |-> "ok"]
  /\ executed' = executed + 1
  /\ UNCHANGED <<policySource, siteCustomize, argvMode, pc, sysModules,
                 policyObj, osBinding, rlimit, limiter, gateInstalled, warnCount, diag,
                 exitCode>>

\* Exceptions a statement of the untrusted code raises by itself.
Exceptions == {"RuntimeError", "FileNotFoundError"}

\* A statement outside any try block raises <exc> (open() of an absent file
\* raises FileNotFoundError).  The console prints the traceback and goes on;
\* exec(sys.argv[2]) lets it end the process; the exec of the script is
\* inside the try block of lines 58-65, whose handler takes FileNotFoundError.
UntrustedRaise(exc) ==
  /\ Running
  /\ lastEvent' = [by |-> "untrusted", kind |-> "raise", name |-> exc, outcome |-> exc]
  /\ IF argvMode = "script" /\ exc = "FileNotFoundError"
     THEN /\ pc' = "exited"
          /\ exitCode' = 1
          /\ diag' = diag \cup {"script_not_found"}
     ELSE AfterStatement(TRUE, FALSE)
  /\ executed' = executed + 1
  /\ UNCHANGED <<policySource, siteCustomize, argvMode, sysModules, metaPath,
                 policyObj, osBinding, rlimit, limiter, gateInstalled, warnCount>>

\* Values untrusted code passes to setrlimit: below the ceiling, the
\* ceiling, no limit.
LimitValues(r) == {Ceiling(r) \div 2, Ceiling(r), RLIM_INFINITY}

\* resource.setrlimit(<r>, (soft, hard)): `resource` is in sys.modules since
\* line 5, so no gate is asked.
UntrustedSetrlimit(r, soft, hard, caught) ==
  /\ Running
  /\ IF SetrlimitRaises(rlimit[r], soft, hard)
     THEN /\ UNCHANGED rlimit
          /\ lastEvent' = [by |-> "untrusted", kind |-> "setrlimit", name |-> r,
                           outcome |-> "ValueError"]
          /\ AfterStatement(TRUE, caught)
     ELSE /\ rlimit' = [rlimit EXCEPT ![r] = [soft |-> soft, hard |-> hard]]
          /\ lastEvent' = [by |-> "untrusted", kind |-> "setrlimit", name |-> r,
                           outcome |-> "ok"]
          /\ AfterStatement(FALSE, caught)
  /\ executed' = executed + 1
  /\ UNCHANGED <<policySource, siteCustomize, argvMode, sysModules, metaPath,
                 policyObj, osBinding, limiter, gateInstalled, warnCount>>

\* The untrusted code runs off its end (or the console reads end of input).
UntrustedFinish ==
  /\ pc = "exec"
  /\ pc' = "exited"
  /\ exitCode' = 0
  /\ UNCHANGED <<policySource, siteCustomize, argvMode, sysModules, metaPath,
                 policyObj, osBinding, rlimit, limiter, gateInstalled, executed,
                 lastEvent, warnCount, diag>>

Next ==
  \/ SiteStartup
  \/ WrapperImports
  \/ LoadPolicy
  \/ InstallGate
  \/ SetResourceLimits
  \/ Dispatch
  \/ \E n \in UntrustedNames, caught \in BOOLEAN : UntrustedImport(n, caught)
  \/ \E f \in OsNames, caught \in BOOLEAN : UntrustedCallOs(f, caught)
  \/ \E g \in Gates, field \in {"blocked", "warning"} : UntrustedClearList(g, field)
  \/ \E i \in 1..2 : UntrustedRemoveGate(i)
  \/ \E exc \in Exceptions : UntrustedRaise(exc)
  \/ UntrustedFinish

Spec == Init /\ [][Next]_vars

\* The same process with untrusted code that only works on its resource
\* limits.
NextLimits ==
  \/ SiteStartup
  \/ WrapperImports
  \/ LoadPolicy
  \/ InstallGate
  \/ SetResourceLimits
  \/ Dispatch
  \/ \E r \in Resources, caught \in BOOLEAN :
       \E soft \in LimitValues(r), hard \in LimitValues(r) :
         UntrustedSetrlimit(r, soft, hard, caught)
  \/ UntrustedFinish

SpecLimits == Init /\ [][NextLimits]_vars

(***************************************************************************)
(* Properties.                                                             *)
(***************************************************************************)
BlockedOf(src) == IF src.blocked.k = "list" THEN src.blocked.v ELSE {}

WarningOf(src) == IF src.warning.k = "list" THEN src.warning.v ELSE {}

UntrustedDid(kind) == lastEvent.by = "untrusted" /\ lastEvent.kind = kind

\* The state is one of an undisturbed sandbox: the ceilings were applied, the
\* policy objects are as loaded and the wrapper's gate is first in the chain.
Undisturbed ==
  /\ limiter = "ok"
  /\ gateInstalled
  /\ Len(metaPath) >= 1 /\ metaPath[1] = "wrapper"
  /\ \A g \in Gates : policyObj[g] /= NotLoaded => policyObj[g] = JsonLoad(policySource)

\* C1: every import, by untrusted code after the gate is installed, of a name
\* on the policy's blocked list fails with an import error, whatever was
\* imported before and whether or not the module was already in sys.modules.
\* (Stated for undisturbed sandboxes, where no other defect is involved.)
C1_BlockedAlwaysDenied ==
  (Undisturbed /\ UntrustedDid("import") /\ lastEvent.name \in BlockedOf(policySource))
    => lastEvent.outcome = "ImportError"

\* C2: for every name on the policy's warning list exactly one audit record
\* is written, on its first use, and none on later uses (retries and a
\* second installed gate included); the gate never fails the import.
\* (Stated for undisturbed sandboxes; the lower bound leaves out the names
\* the interpreter loads before any gate exists.)
C2_WarnExactlyOnce ==
  Undisturbed =>
    \A n \in WarningOf(policySource) :
      /\ warnCount[n] <= 1
      /\ (UntrustedDid("import") /\ lastEvent.name = n)
           => /\ n \notin StartupModules => warnCount[n] = 1
              /\ lastEvent.outcome \notin {"ImportError", "KeyError", "TypeError"}

\* C3: when applying a resource ceiling fails, no untrusted code is executed
\* in any invocation mode.
C3_LimiterFailureFatal ==
  limiter = "failed" => executed = 0

\* C4: once the policy is loaded, each gate's policy equals the loaded policy
\* and, once the wrapper's gate is installed, it stays at the front of the
\* finder chain, whatever untrusted code does.
\* (Stated for sandboxes whose ceilings were applied.)
C4_PolicyAndGateImmutable ==
  limiter /= "failed" =>
    /\ \A g \in Gates : policyObj[g] /= NotLoaded => policyObj[g] = JsonLoad(policySource)
    /\ gateInstalled => (Len(metaPath) >= 1 /\ metaPath[1] = "wrapper")

\* C5: a policy file that lists a name in both `blocked` and `warning` is
\* rejected at load time: no gate is installed from it and no untrusted code
\* executes.
C5_OverlapRejected ==
  (BlockedOf(policySource) \cap WarningOf(policySource) /= {})
    => (metaPath = <<>> /\ ~gateInstalled /\ executed = 0)

IsMalformed(src) ==
  src.kind = "unreadable" \/ src.blocked.k /= "list" \/ src.warning.k /= "list"

\* C6: an unreadable or malformed policy file makes loading fail at process
\* start: no untrusted code path is reached, and the defect never shows up
\* as an error of a later import that untrusted code observes.
C6_MalformedFailsAtLoad ==
  IsMalformed(policySource)
    => /\ policyObj["wrapper"] = NotLoaded
       /\ executed = 0
       /\ pc \notin {"exec", "replaced"}
       /\ ~(UntrustedDid("import") /\ lastEvent.outcome \in {"KeyError", "TypeError"})

\* C7: in every invocation mode, no statement of untrusted code executes, and
\* control is not handed to untrusted code, before the wrapper has inserted
\* its gate in the finder chain and set_resource_limits has returned.
C7_SetupPrecedesExecution ==
  /\ (executed > 0 \/ pc \in {"exec", "replaced"})
       => (gateInstalled /\ limiter /= "pending")
  /\ (pc = "exec" /\ executed = 0)
       => (Len(metaPath) >= 1 /\ metaPath[1] = "wrapper")

C7_Witness ==
  /\ executed > 0
  /\ argvMode = "script"
  /\ gateInstalled
  /\ limiter = "ok"
  /\ UntrustedDid("import")

\* The os functions the test and the gate name as disabled.
DisabledOsNames == {"system", "popen", "execl", "execle", "execlp", "execv",
                    "execve", "execvp"}

\* C8: with the gate of sitecustomize in place, code run through the wrapper
\* finds each disabled os function still bound, to the replacement, and every
\* call of it raises AttributeError and neither starts nor replaces a process.
C8_DisabledCallsRaise ==
  (siteCustomize /\ executed > 0)
    => \A f \in DisabledOsNames :
         /\ osBinding[f] = "disabled"
         /\ (UntrustedDid("call") /\ lastEvent.name = f)
              => (lastEvent.outcome = "AttributeError" /\ pc /= "replaced")

C8_Witness ==
  /\ siteCustomize
  /\ executed >= 2
  /\ UntrustedDid("call")
  /\ lastEvent.name = "system"
  /\ lastEvent.outcome = "AttributeError"
  /\ osBinding["system"] = "disabled"

\* C9: with the gate of sitecustomize in place, every entry point of the os
\* module that starts or replaces a process is gated: a call through any of
\* them fails, none stays callable and none starts or replaces a process.
\* (Stated for undisturbed sandboxes, and read leniently: a spawn* call whose
\* forked child dies before it runs a program counts as a failed call.)
C9_AllEntryPointsGated ==
  (siteCustomize /\ Undisturbed /\ UntrustedDid("call")
     /\ lastEvent.name \in ProcessEntryPoints)
    => /\ lastEvent.outcome \in {"AttributeError", "child_exit_127"}
       /\ pc /= "replaced"

\* C10: in script mode with an absent script the wrapper exits with status 1,
\* and the absence is detected before the gate is installed and before the
\* ceilings are applied; no untrusted code is executed.
C10_MissingScriptBeforeSetup ==
  argvMode = "script_missing"
    => /\ ~gateInstalled
       /\ limiter = "pending"
       /\ executed = 0
       /\ pc = "exited" => exitCode = 1

\* C11: a process ended by an uncaught denial of a blocked import exits with
\* a status of its own: not 0, and not the status 1 that an ordinary uncaught
\* error, a missing script and a missing -c argument give.
\* (Stated for undisturbed sandboxes.)
C11_DenialExitDistinct ==
  (Undisturbed /\ pc = "exited" /\ exitCode /= 0 /\ UntrustedDid("import")
     /\ lastEvent.name \in BlockedOf(policySource)
     /\ lastEvent.outcome = "ImportError")
    => exitCode /= 1

\* The last statement of untrusted code was denied: a blocked import refused
\* by a gate, or a call of a disabled os function.
LastWasDenied ==
  \/ /\ UntrustedDid("import")
     /\ lastEvent.outcome = "ImportError"
  \/ /\ UntrustedDid("call")
     /\ lastEvent.outcome = "AttributeError"
     /\ osBinding[lastEvent.name] = "disabled"

\* C12: every denial leaves a record on the diagnostic stream, also when the
\* untrusted code catches the error.  (Read leniently: the traceback of an
\* uncaught denial counts as its record.  Stated for undisturbed sandboxes.)
C12_DenialRecorded ==
  (Undisturbed /\ LastWasDenied) => "traceback" \in diag

\* C13: once the three ceilings were applied, whatever setrlimit calls the
\* untrusted code makes, no soft or hard limit of CPU, AS or FSIZE is above
\* the applied ceiling.
C13_CeilingNeverRaised ==
  limiter = "ok" =>
    \A r \in Resources :
      /\ rlimit[r].soft <= Ceiling(r)
      /\ rlimit[r].hard <= Ceiling(r)

C13_Witness ==
  /\ limiter = "ok"
  /\ executed >= 2
  /\ UntrustedDid("setrlimit")
  /\ lastEvent.outcome = "ValueError"
  /\ rlimit[lastEvent.name].hard < Ceiling(lastEvent.name)

\* C14: in the console every input runs under the same gate state: a name
\* whose import was denied for the previous input is denied again, and a
\* warning already written for a name is not written again for a later input.
\* (Stated for steps between undisturbed states.)
C14_ConsoleKeepsGateState ==
  [][(argvMode = "interactive" /\ pc = "exec" /\ Undisturbed /\ Undisturbed')
       => \A n \in UntrustedNames :
            /\ warnCount[n] > 0 => warnCount'[n] = warnCount[n]
            /\ (UntrustedDid("import") /\ lastEvent.name = n
                  /\ lastEvent.outcome = "ImportError"
                  /\ lastEvent'.kind = "import" /\ lastEvent'.name = n
                  /\ executed' = executed + 1)
                 => lastEvent'.outcome = "ImportError"]_vars

\* C15: `-c` with no code after it executes no untrusted code and the process
\* exits with status 1, whatever else the process was given.
C15_NoCodeExitsOne ==
  argvMode = "inline_nocode"
    => /\ executed = 0
       /\ pc \notin {"exec", "replaced"}
       /\ pc = "exited" => exitCode = 1

C15_Witness ==
  /\ argvMode = "inline_nocode"
  /\ pc = "exited"
  /\ gateInstalled
  /\ limiter = "ok"
  /\ "no_code" \in diag

HasLists(policy) == policy.blocked.k = "list" /\ policy.warning.k = "list"

\* C16: for every policy object a gate holds (two lists) and every module
\* name, one find_spec call raises ImportError iff the name is an element of
\* `blocked`; else prints a warning and returns None iff it is an element of
\* `warning`; else returns None silently.  So a name on both lists is denied
\* without a warning, a dotted name whose parent alone is listed is not
\* matched, and no call returns a module spec.
C16_FindSpecByExactName ==
  \A g \in Gates :
    HasLists(policyObj[g]) =>
      \A n \in Names :
        LET r == GateFindSpec(g, policyObj[g], n)
            b == n \in policyObj[g].blocked.v
            w == n \in policyObj[g].warning.v
        IN /\ r \in {"ImportError", "warn", "none"}
           /\ (r = "ImportError") <=> b
           /\ (r = "warn") <=> (~b /\ w)
           /\ (r = "none") <=> (~b /\ ~w)

C16_Witness ==
  /\ Undisturbed
  /\ UntrustedDid("import")
  /\ lastEvent.name \in BlockedOf(policySource) \cap WarningOf(policySource)
  /\ lastEvent.outcome = "ImportError"
  /\ warnCount[lastEvent.name] = 0

\* C17: a process with both gates installed decides every import of the
\* untrusted code as a process with the wrapper's gate alone would, and
\* writes the same audit records for it.
\* (Stated for steps between undisturbed states.)
C17_TwoGatesAsOne ==
  [][(Undisturbed /\ Undisturbed' /\ Len(metaPath) = 2 /\ pc = "exec"
        /\ executed' = executed + 1 /\ lastEvent'.kind = "import")
       => LET n == lastEvent'.name
              alone == ImportModule(n, sysModules, <<"wrapper">>, policyObj, NoWarnings)
          IN /\ lastEvent'.outcome = alone.outcome
             /\ warnCount'[n] - warnCount[n] = alone.emitted[n]]_vars

\* C18: when the script file exists, an error of the script's own code is
\* never reported as a missing script file.
\* (Stated for undisturbed sandboxes.)
C18_ScriptErrorNotMisreported ==
  (Undisturbed /\ argvMode = "script") => "script_not_found" \notin diag

====
